---- MODULE Spec2Model ----
(***************************************************************************)
(* Model of the prediction ledger of CryptoPricePredictor (src/app.js):    *)
(* the history list, its persisted copy in localStorage, the per-coin      *)
(* ticker kept in coinData, and the handlers that read or write them:      *)
(* the per-coin callback of refresh() (which records a prediction), the    *)
(* tail of refresh() (which resolves and renders the history), the         *)
(* history filter and clear handlers, the clock, and a page reload.        *)
(*                                                                         *)
(* Times are epoch milliseconds as returned by Date.now().  Prices are     *)
(* positive integers; the percentages of getHistoryStats are kept in       *)
(* fixed point (see Fixed).  One handler run is one step: the ledger       *)
(* functions are synchronous and run on the single event-loop thread.      *)
(*                                                                         *)
(* Three further specifications share the variables.  EngineSpec applies   *)
(* the pure indicator functions and computePrediction to inputs drawn      *)
(* from EngineInputs.  RefreshSpec runs refresh() as the code sequences    *)
(* it: the per-asset callbacks of one cycle, then either the tail that     *)
(* calls resolveHistory or the catch block.  LoopSpec is the refresh loop  *)
(* of setInterval with every retrieval succeeding, under weak fairness.    *)
(***************************************************************************)
EXTENDS Integers, Sequences, FiniteSets

VARIABLES
    now,            \* Date.now()
    history,        \* the `history` array (src/app.js:43), when it is an array
    historyIsArray, \* FALSE when loadHistory returned a parsed non-array value
    stored,         \* localStorage[HISTORY_KEY]
    storeFails,     \* localStorage.setItem throws (storage full or disabled)
    coinData,       \* coinData[coin].ticker.lastPrice, or NoTicker
    lastOp,         \* the ledger operation the last step ran, or "none"
    lastArg,        \* its argument: the coin recorded, the filter of the stats
    trimmed,        \* whether it took the slice of line 240
    raised,         \* whether that operation threw
    stats,          \* what getHistoryStats returned in the last step, or NoStats
    engineIn,       \* the arguments handed to the prediction engine
    engineOut,      \* the function last applied to them and what it returned
    pc,             \* where the current refresh() invocation stands
    todo,           \* the assets whose callback of this invocation has not run
    rejected,       \* whether a callback of this invocation has rejected
    resolveReached, \* whether this invocation has called resolveHistory
    wrote,          \* whether the last ledger operation called saveHistory
    failed,         \* the assets whose retrieval rejected in this invocation
    settled,        \* how the promise of the last finished refresh() settled
    inflight,       \* the refresh() invocations running side by side
    cache,          \* the Map `cache` (src/app.js:39): key -> {ts, data}
    flights,        \* per key, the retrievals started and not yet settled
    served          \* what the last step did to the cache, and for which key

ledgerVars ==
    <<now, history, historyIsArray, stored, storeFails, coinData,
      lastOp, lastArg, trimmed, raised, stats, wrote>>

engineVars == <<engineIn, engineOut>>

refreshVars == <<pc, todo, rejected, resolveReached, failed, settled>>

overlapVars == <<inflight>>

cacheVars == <<cache, flights, served>>

vars ==
    <<now, history, historyIsArray, stored, storeFails, coinData,
      lastOp, lastArg, trimmed, raised, stats,
      engineIn, engineOut, pc, todo, rejected, resolveReached,
      wrote, failed, settled, inflight, cache, flights, served>>

----------------------------------------------------------------------------
(* Program constants *)

\* src/app.js:20-24, the ids of COINS.  The ledger code treats every id alike;
\* two of the three are kept.
COINS == {"BTC", "ETH"}

\* src/app.js:36 sets MAX_HISTORY = 100; the capacity is scaled down here so
\* that the eviction at line 240 is reached.  It stays >= the number of COINS,
\* as in the program.
MAX_HISTORY == 2

SPACING_MS == 55000
SHORT_MS == 60000
LONG_MS == 86400000
REFRESH_MS == 30000

\* the literal null of the pending fields (src/app.js:237-238)
Null == -1

\* coinData[coin]?.ticker is undefined
NoTicker == 0

----------------------------------------------------------------------------
(* Bounds of the model *)

\* last prices the ticker can report, and forecasts computePrediction can give
\* what one refresh can see for a coin: <<last price, 1-minute forecast,
\* 1-day forecast>>
Quotes == {<<100, 101, 100>>, <<102, 101, 101>>}

\* the instants at which handlers run: page load, one refresh period later,
\* the spacing threshold, the short horizon, and the long horizon
Instants == {0, REFRESH_MS, SPACING_MS, SHORT_MS, LONG_MS}

----------------------------------------------------------------------------
(* Sequence helpers *)

\* Array.prototype.slice(-n)
SliceLast(s, n) ==
    IF Len(s) <= n THEN s ELSE SubSeq(s, Len(s) - n + 1, Len(s))

Abs(x) == IF x >= 0 THEN x ELSE -x

RECURSIVE SumSeq(_)
SumSeq(s) == IF s = <<>> THEN 0 ELSE Head(s) + SumSeq(Tail(s))

\* the quotient n/d of two doubles, kept in units of 1/10000
Fixed(n, d) == (n * 10000) \div d

----------------------------------------------------------------------------
(* Persistence: loadHistory and saveHistory *)

\* Stringify keeping one entry fewer than the capacity
StringifyShort(h) ==
    [kind |-> "array", entries |-> SliceLast(h, MAX_HISTORY - 1)]

\* JSON.stringify(history.slice(-MAX_HISTORY)): a JSON array text; every field
\* of an entry is a finite number, a string or null and is written as is
Stringify(h) == [kind |-> "array", entries |-> SliceLast(h, MAX_HISTORY)]

\* what localStorage.getItem(HISTORY_KEY) can hold before the first save:
\* nothing, text that JSON.parse rejects, JSON for a falsy value (null, 0,
\* false, ""), or JSON for a truthy value that is no array ({}, 5, true, "x")
ForeignStored ==
    { [kind |-> k, entries |-> <<>>] :
        k \in {"absent", "unparseable", "falsy", "nonarray"} }

\* loadHistory: JSON.parse(...) || [], and [] when JSON.parse throws
LoadIsArray(st) == st.kind # "nonarray"
LoadHistory(st) == IF st.kind = "array" THEN st.entries ELSE <<>>

\* localStorage[HISTORY_KEY] after saveHistory ran on h: setItem stores the
\* text, or throws and the catch swallows it
SaveHistory(h) == IF storeFails THEN stored ELSE Stringify(h)

----------------------------------------------------------------------------
(* recordPrediction *)

\* [...history].reverse().find(h => h.coin === coinId), as an index (0: none)
LastIndexFor(h, coinId) ==
    LET idx == {i \in 1..Len(h) : h[i].coin = coinId}
    IN  IF idx = {} THEN 0 ELSE CHOOSE i \in idx : \A j \in idx : j <= i

\* TooRecent with the refresh period taken for the spacing threshold
TooRecentRefresh(last) == now - last.ts < REFRESH_MS

\* the early return of line 230
TooRecent(last) == now - last.ts < SPACING_MS

RecordRejected(h, coinId) ==
    LET i == LastIndexFor(h, coinId)
    IN  i # 0 /\ TooRecent(h[i])

NewEntry(coinId, price, pred1m, pred1d) ==
    [ts |-> now, coin |-> coinId, price |-> price,
     pred1m |-> pred1m, pred1d |-> pred1d,
     actual1m |-> Null, actual1mTs |-> Null,
     actual1d |-> Null, actual1dTs |-> Null]

\* PushAndTrim keeping the first MAX_HISTORY entries: slice(0, MAX_HISTORY)
PushAndTrimHead(h, e) ==
    LET pushed == Append(h, e)
    IN  IF Len(pushed) > MAX_HISTORY THEN SubSeq(pushed, 1, MAX_HISTORY) ELSE pushed

\* lines 232-240: push, then keep the last MAX_HISTORY entries
PushAndTrim(h, e) ==
    LET pushed == Append(h, e)
    IN  IF Len(pushed) > MAX_HISTORY THEN SliceLast(pushed, MAX_HISTORY) ELSE pushed

\* the condition of line 240, when the call gets that far
Trims(h, coinId) == ~RecordRejected(h, coinId) /\ Len(h) + 1 > MAX_HISTORY

RecordPrediction(h, coinId, price, pred1m, pred1d) ==
    IF RecordRejected(h, coinId) THEN h
    ELSE PushAndTrim(h, NewEntry(coinId, price, pred1m, pred1d))

----------------------------------------------------------------------------
(* resolveHistory *)

\* HasTicker without the test of coinData[coin.id]?.ticker
HasTickerUnchecked(coinId) == coinId \in COINS

\* coin && coinData[coin.id]?.ticker
HasTicker(coinId) == coinId \in COINS /\ coinData[coinId] # NoTicker

\* Due1m with the refresh period taken for the short horizon
Due1mEarly(e) == e.actual1m = Null /\ now - e.ts >= REFRESH_MS

\* Due1m without the test entry.actual1m === null
Due1mAgain(e) == now - e.ts >= SHORT_MS

Due1m(e) == e.actual1m = Null /\ now - e.ts >= SHORT_MS

\* Due1d with the short horizon taken for the long one
Due1dShort(e) == e.actual1d = Null /\ now - e.ts >= SHORT_MS

Due1d(e) == e.actual1d = Null /\ now - e.ts >= LONG_MS

Resolve1m(e) ==
    IF Due1m(e) /\ HasTicker(e.coin)
    THEN [e EXCEPT !.actual1m = coinData[e.coin], !.actual1mTs = now]
    ELSE e

Resolve1d(e) ==
    IF Due1d(e) /\ HasTicker(e.coin)
    THEN [e EXCEPT !.actual1d = coinData[e.coin], !.actual1dTs = now]
    ELSE e

\* ResolveEntry with the second `if` written as `else if`
ResolveEntryElseIf(e) == IF Resolve1m(e) # e THEN Resolve1m(e) ELSE Resolve1d(e)

ResolveEntry(e) == Resolve1d(Resolve1m(e))

\* the loop of lines 248-267
ResolveAll(h) == [i \in 1..Len(h) |-> ResolveEntry(h[i])]

\* the `changed` flag
\* Changed with the flag of line 246 starting as true
ChangedAlways(h) == TRUE

Changed(h) ==
    \E i \in 1..Len(h) :
        \/ Due1m(h[i]) /\ HasTicker(h[i].coin)
        \/ Due1d(h[i]) /\ HasTicker(h[i].coin)

----------------------------------------------------------------------------
(* getHistoryStats *)

Filters == {"ALL"} \cup COINS

NoStats ==
    [total |-> Null, resolved1m |-> Null, resolved1d |-> Null,
     accuracy1m |-> Null, accuracy1d |-> Null,
     avgErr1m |-> Null, avgErr1d |-> Null]

\* h.pred >= h.price ? 1 : -1
Dir(v, price) == IF v >= price THEN 1 ELSE -1

IsHit(pred, actual, price) == Dir(pred, price) = Dir(actual, price)

\* PctErr taken relative to the actual price
PctErrOfActual(pred, actual, price) == Fixed(Abs(pred - actual) * 100, actual)

\* Math.abs(pred - actual) / price * 100
PctErr(pred, actual, price) == Fixed(Abs(pred - actual) * 100, price)

Items(h, f) == IF f = "ALL" THEN h ELSE SelectSeq(h, LAMBDA e : e.coin = f)

\* Accuracy giving 0 where no entry is resolved
AccuracyZero(hits, n) == IF n > 0 THEN Fixed(hits * 100, n) ELSE 0

Accuracy(hits, n) == IF n > 0 THEN Fixed(hits * 100, n) ELSE Null
AvgErr(total, n) == IF n > 0 THEN total \div n ELSE Null

GetHistoryStats(h, f) ==
    LET items == Items(h, f)
        r1m == SelectSeq(items, LAMBDA e : e.actual1m # Null)
        r1d == SelectSeq(items, LAMBDA e : e.actual1d # Null)
        hit1m == Len(SelectSeq(r1m, LAMBDA e : IsHit(e.pred1m, e.actual1m, e.price)))
        hit1d == Len(SelectSeq(r1d, LAMBDA e : IsHit(e.pred1d, e.actual1d, e.price)))
        err1m == SumSeq([i \in 1..Len(r1m) |->
                     PctErr(r1m[i].pred1m, r1m[i].actual1m, r1m[i].price)])
        err1d == SumSeq([i \in 1..Len(r1d) |->
                     PctErr(r1d[i].pred1d, r1d[i].actual1d, r1d[i].price)])
    IN  [total |-> Len(items),
         resolved1m |-> Len(r1m),
         resolved1d |-> Len(r1d),
         accuracy1m |-> Accuracy(hit1m, Len(r1m)),
         accuracy1d |-> Accuracy(hit1d, Len(r1d)),
         avgErr1m |-> AvgErr(err1m, Len(r1m)),
         avgErr1d |-> AvgErr(err1d, Len(r1d))]

----------------------------------------------------------------------------
(* Indicator arithmetic                                                    *)
(*                                                                         *)
(* The indicators of src/app.js:83-155 work on JavaScript doubles.  Here   *)
(* a price is an integer number of thousandths (Milli), a dimensionless    *)
(* signal is a ratio <<n, d>> with d > 0 whose sign is exact, and its      *)
(* magnitude, when it enters a weighted sum, is an integer number of       *)
(* millionths rounded down (Micro).                                        *)

Milli(x) == x * 1000

Micro == 1000 * 1000

Min(a, b) == IF a <= b THEN a ELSE b

Max(a, b) == IF a >= b THEN a ELSE b

\* 10^k
RECURSIVE Pow10(_)
Pow10(k) == IF k = 0 THEN 1 ELSE 10 * Pow10(k - 1)

\* floor(n * 10^k / d) for d > 0, by long division, so that no intermediate
\* product exceeds 10 * d
RECURSIVE DivScaled(_, _, _)
DivScaled(n, d, k) ==
    IF k = 0 THEN n \div d
    ELSE (n \div d) * Pow10(k) + DivScaled((n % d) * 10, d, k - 1)

\* a ratio <<n, d>> as millionths
ToMicro(r) == DivScaled(r[1], r[2], 6)

\* floor(a * b / 10^6) for b >= 0, split so that no product overflows
MulMicro(a, b) ==
    LET q == a \div Micro
        r == a % Micro
        bh == b \div 1000
        bl == b % 1000
    IN  q * b + (r * bh + (r * bl) \div 1000) \div 1000

\* floor(sqrt(n)) for n >= 0
RECURSIVE SqrtBetween(_, _, _)
SqrtBetween(n, lo, hi) ==
    IF hi - lo <= 1 THEN lo
    ELSE LET mid == (lo + hi) \div 2
         IN  IF mid * mid <= n THEN SqrtBetween(n, mid, hi)
             ELSE SqrtBetween(n, lo, mid)

Sqrt(n) == SqrtBetween(n, 0, Min(n, 46340) + 1)

SumOf(s, lo, hi) == SumSeq([i \in 1..(hi - lo + 1) |-> s[lo + i - 1]])

RECURSIVE MaxOf(_, _, _)
MaxOf(s, lo, hi) == IF lo = hi THEN s[lo] ELSE Max(s[lo], MaxOf(s, lo + 1, hi))

RECURSIVE MinOf(_, _, _)
MinOf(s, lo, hi) == IF lo = hi THEN s[lo] ELSE Min(s[lo], MinOf(s, lo + 1, hi))

\* a series of prices in thousandths
MilliSeq(s) == [i \in 1..Len(s) |-> Milli(s[i])]

----------------------------------------------------------------------------
(* ema, src/app.js:83-87 *)

\* the recurrence with Wilder's k = 1/period
EmaStepWilder(x, prev, period) == (x + (period - 1) * prev) \div period

\* one step of the recurrence: data[i]*k + r[i-1]*(1-k) with k = 2/(period+1)
EmaStep(x, prev, period) == (2 * x + (period - 1) * prev) \div (period + 1)

RECURSIVE EmaFrom(_, _, _)
EmaFrom(data, period, r) ==
    IF Len(r) = Len(data) THEN r
    ELSE EmaFrom(data, period,
                 Append(r, EmaStep(data[Len(r) + 1], r[Len(r)], period)))

\* r = [data[0]], then one push per further element
ema(data, period) == EmaFrom(data, period, <<data[1]>>)

----------------------------------------------------------------------------
(* calcRSI, src/app.js:99-113, and the earlier rsi of                      *)
(* src/unnamed/part_001:281-299                                            *)
(*                                                                         *)
(* The result is the ratio RSI/100 as <<n, d>>: <<1, 2>> is 50 and <<1, 1>>*)
(* is 100.  The smoothed averages ag and al are carried as exact integers  *)
(* over the common denominator period^j, which cancels in ag/al.           *)

RSI_PERIOD == 14

BB_PERIOD == 20

BB_MULT == 2

\* a fallback of 0 rather than 50
RsiZero == <<0, 1>>

RsiFifty == <<1, 2>>

RsiHundred == <<1, 1>>

Gain(data, i) == Max(data[i] - data[i - 1], 0)

Loss(data, i) == Max(data[i - 1] - data[i], 0)

\* the seed sums gS and lS over the first `period` differences
SeedGain(data, period) ==
    SumSeq([i \in 1..period |-> Gain(data, i + 1)])

SeedLoss(data, period) ==
    SumSeq([i \in 1..period |-> Loss(data, i + 1)])

\* the smoothing loop from element i (1-based) on; ag = g / scale, al = l / scale,
\* starting from ag = gS / period
RECURSIVE Smooth(_, _, _, _, _, _)
Smooth(data, period, i, g, l, scale) ==
    IF i > Len(data) THEN <<g, l>>
    ELSE Smooth(data, period, i + 1,
                (period - 1) * g + Gain(data, i) * scale,
                (period - 1) * l + Loss(data, i) * scale,
                scale * period)

\* al === 0 ? 100 : 100 - 100/(1 + ag/al)
RsiOf(gl) == IF gl[2] = 0 THEN RsiHundred ELSE <<gl[1], gl[1] + gl[2]>>

\* src/app.js:99-113.  The series starts with period+1 placeholders of 50 and
\* gets one element per pass of the smoothing loop; the value is its last
\* element, so with exactly period+1 points it is the placeholder.
calcRSI(data, period) ==
    IF Len(data) < period + 1 THEN RsiFifty
    ELSE IF Len(data) = period + 1 THEN RsiFifty
    ELSE RsiOf(Smooth(data, period, period + 2,
                      SeedGain(data, period), SeedLoss(data, period), period))

\* src/unnamed/part_001:281-299.  No placeholder series: the value is computed
\* from the averages left by the loop, which are the seeds when it never runs.
rsi(data, period) ==
    IF Len(data) < period + 1 THEN RsiFifty
    ELSE RsiOf(Smooth(data, period, period + 2,
                      SeedGain(data, period), SeedLoss(data, period), period))

----------------------------------------------------------------------------
(* calcMACD, calcBollinger, calcStochastic, calcATR: src/app.js:115-155     *)

Last(s) == s[Len(s)]

\* src/app.js:115-121, on a series in thousandths
calcMACD(data) ==
    LET e12 == ema(data, 12)
        e26 == ema(data, 26)
        line == [i \in 1..Len(data) |-> e12[i] - e26[i]]
        sig == ema(line, 9)
        hist == [i \in 1..Len(data) |-> line[i] - sig[i]]
    IN  [line |-> Last(line), signal |-> Last(sig), histogram |-> Last(hist)]

\* a fallback band 0.2% above the last price
FallbackUpperNarrow(last) == last * 1002

\* data[data.length-1]*1.02 and data[data.length-1]*0.98, in thousandths
FallbackUpper(last) == last * 1020

FallbackLower(last) == last * 980

\* src/app.js:123-135, on a series of integer prices; the bands are in
\* thousandths and pctB is the ratio (last - ll) / (lu - ll || 1).  With fewer
\* than `period` points mid, upper and lower end in null and the `||` take
\* the 2% envelope of the last price; a band that is exactly 0 is falsy too.
calcBollinger(data, period, mult) ==
    LET n == Len(data)
        last == Milli(data[n])
        short == n < period
        s == IF short THEN 0 ELSE SumOf(data, n - period + 1, n)
        mid == Milli(s) \div period
        q == IF short THEN 0
             ELSE SumSeq([j \in 1..period |->
                      (period * data[n - period + j] - s)
                      * (period * data[n - period + j] - s)])
        std == Sqrt(DivScaled(q, period * period * period, 6))
        upper == mid + mult * std
        lower == mid - mult * std
        lu == IF short \/ upper = 0 THEN FallbackUpper(data[n]) ELSE upper
        ll == IF short \/ lower = 0 THEN FallbackLower(data[n]) ELSE lower
        lm == IF short \/ mid = 0 THEN last ELSE mid
    IN  [pctB |-> <<last - ll, IF lu - ll = 0 THEN Milli(1) ELSE lu - ll>>,
         lastUpper |-> lu, lastLower |-> ll, lastMid |-> lm]

\* %K of the window ending at element i (1-based), in thousandths of a point
StochK(highs, lows, closes, kP, i) ==
    IF i < kP THEN Milli(50)
    ELSE LET hh == MaxOf(highs, i - kP + 1, i)
             ll == MinOf(lows, i - kP + 1, i)
         IN  IF hh = ll THEN Milli(50)
             ELSE DivScaled((closes[i] - ll) * 100, hh - ll, 3)

\* src/app.js:137-147.  d is the mean of the last dP values of %K, or 50 when
\* there are fewer than dP; it is returned as their sum (dSum = dP * d) so
\* that the comparison of k with d stays exact.
calcStochastic(highs, lows, closes, kP, dP) ==
    LET n == Len(closes)
        kV == [i \in 1..n |-> StochK(highs, lows, closes, kP, i)]
    IN  [k |-> kV[n],
         dSum |-> IF n < dP THEN dP * Milli(50) ELSE SumOf(kV, n - dP + 1, n)]

\* the true range of element i (1-based), integer prices
TrueRange(highs, lows, closes, i) ==
    IF i = 1 THEN highs[1] - lows[1]
    ELSE Max(highs[i] - lows[i],
             Max(Abs(highs[i] - closes[i - 1]), Abs(lows[i] - closes[i - 1])))

\* src/app.js:149-155, the last value of the smoothed true range, in thousandths
calcATR(highs, lows, closes, period) ==
    Last(ema([i \in 1..Len(closes) |->
                 Milli(TrueRange(highs, lows, closes, i))], period))

----------------------------------------------------------------------------
(* computePrediction, src/app.js:158-216 *)

INDICATORS == {"EMA", "RSI", "MACD", "BB", "Stoch", "ATR", "MeanRev"}

Zero == <<0, 1>>

\* x > 0 ? "bullish" : x < 0 ? "bearish" : "neutral", on the numerator of a ratio
ThreeWay(x) == IF x > 0 THEN "bullish" ELSE IF x < 0 THEN "bearish" ELSE "neutral"

\* x >= 0 ? "bullish" : "bearish", src/app.js:198 and 200
AtLeastZero(x) == IF x >= 0 THEN "bullish" ELSE "bearish"

\* x > 0 ? "bullish" : "bearish", src/app.js:204
AboveZero(x) == IF x > 0 THEN "bullish" ELSE "bearish"

\* Strength without the Math.min(..., 100)
StrengthUncapped(s, factor) == (Min(Abs(s), Micro) * factor) \div 1000

\* Math.min(Math.abs(s) * factor, 100) in thousandths, for a signal s in
\* millionths and factor >= 100.  |s| is saturated at 1 before the product,
\* which leaves the result unchanged and keeps the product in range.
Strength(s, factor) ==
    Min((Min(Abs(s), Micro) * factor) \div 1000, Milli(100))

\* Overall asking for more than half of the seven directions
OverallOfSeven(bull, bear) ==
    IF 2 * bull > 7 THEN "bullish" ELSE IF 2 * bear > 7 THEN "bearish" ELSE "neutral"

\* src/app.js:207-209: bull > bear ? "bullish" : bear > bull ? "bearish" : "neutral"
Overall(bull, bear) ==
    IF bull > bear THEN "bullish" ELSE IF bear > bull THEN "bearish" ELSE "neutral"

\* src/app.js:165-170, from RSI/100 = n/d
RsiSignal(r) ==
    LET n == r[1]
        d == r[2]
    IN  IF 4 * n > 3 * d THEN <<7 * d - 10 * n, 10 * d>>
        ELSE IF 5 * n > 3 * d THEN <<3 * d - 5 * n, 10 * d>>
        ELSE IF 4 * n < d THEN <<3 * d - 10 * n, 10 * d>>
        ELSE IF 5 * n < 2 * d THEN <<2 * d - 5 * n, 10 * d>>
        ELSE Zero

\* src/app.js:175-179, from pctB = n/d
BbSignal(pctB) ==
    LET n == pctB[1]
        d == pctB[2]
    IN  IF 20 * n > 19 * d THEN <<4 * d - 5 * n, 10 * d>>
        ELSE IF 20 * n < d THEN <<d - 5 * n, 10 * d>>
        ELSE <<d - 2 * n, 20 * d>>

\* src/app.js:181-184
StochSignal(st, dP) ==
    IF st.k > Milli(80) /\ dP * st.k > st.dSum THEN <<0 - 2, 100>>
    ELSE IF st.k < Milli(20) /\ dP * st.k < st.dSum THEN <<2, 100>>
    ELSE Zero

\* price * (1 + raw * Math.min(atrPct * gain, cap)), in thousandths; raw, atrPct
\* and cap in millionths
Forecast(price, raw, atrPct, gain, cap) ==
    Milli(price) + MulMicro(MulMicro(raw, Min(atrPct * gain, cap)), Milli(price))

computePrediction(price, hCloses, dCloses, hHighs, hLows) ==
    LET data == MilliSeq(hCloses)
        ema8 == Last(ema(data, 8))
        ema21 == Last(ema(data, 21))
        ema50 == Last(ema(data, 50))
        emaSignal == <<6 * (ema8 - ema21) + 4 * (ema21 - ema50), 10 * Milli(price)>>
        rsiValue == calcRSI(hCloses, RSI_PERIOD)
        rsiSignal == RsiSignal(rsiValue)
        macd == calcMACD(data)
        macdSignal == <<macd.histogram, Milli(price)>>
        bb == calcBollinger(hCloses, BB_PERIOD, BB_MULT)
        bbSignal == BbSignal(bb.pctB)
        stoch == calcStochastic(hHighs, hLows, hCloses, 14, 3)
        stochSignal == StochSignal(stoch, 3)
        atr == calcATR(hHighs, hLows, hCloses, 14)
        atrPct == ToMicro(<<atr, Milli(price)>>)
        dSum == SumSeq(dCloses)
        meanRevSignal == <<dSum - price * Len(dCloses), dSum>>
        e == ToMicro(emaSignal)
        r == ToMicro(rsiSignal)
        mc == ToMicro(macdSignal)
        b == ToMicro(bbSignal)
        s == ToMicro(stochSignal)
        v == ToMicro(meanRevSignal)
        mRaw == (30 * e + 10 * r + 25 * mc + 15 * b + 10 * s + 5 * v) \div 100
        dRaw == (20 * e + 15 * r + 15 * mc + 15 * b + 10 * s + 20 * v) \div 100
        signals ==
            [EMA |-> [signal |-> emaSignal,
                      direction |-> AtLeastZero(emaSignal[1]),
                      strength |-> Strength(e, 500)],
             RSI |-> [signal |-> rsiSignal,
                      direction |-> ThreeWay(rsiSignal[1]),
                      strength |-> Strength(r, 400)],
             MACD |-> [signal |-> macdSignal,
                       direction |-> AtLeastZero(macd.histogram),
                       strength |-> Strength(mc, 2000)],
             BB |-> [signal |-> bbSignal,
                     direction |-> ThreeWay(bbSignal[1]),
                     strength |-> Strength(b, 300)],
             Stoch |-> [signal |-> stochSignal,
                        direction |-> ThreeWay(stochSignal[1]),
                        strength |-> (Abs(s) * 2500) \div 1000],
             ATR |-> [signal |-> <<atr, Milli(price)>>,
                      direction |-> "neutral",
                      strength |-> Min(atrPct, Milli(100))],
             MeanRev |-> [signal |-> meanRevSignal,
                          direction |-> AboveZero(meanRevSignal[1]),
                          strength |-> Strength(v, 300)]]
        bull == Cardinality({k \in INDICATORS : signals[k].direction = "bullish"})
        bear == Cardinality({k \in INDICATORS : signals[k].direction = "bearish"})
    IN  [oneMinute |-> Forecast(price, mRaw, atrPct, 8, 30000),
         oneDay |-> Forecast(price, dRaw, atrPct, 80, 150000),
         rsi |-> rsiValue,
         signals |-> signals,
         overall |-> Overall(bull, bear)]

----------------------------------------------------------------------------
(* Inputs of the prediction engine                                         *)
(*                                                                         *)
(* refresh() hands computePrediction the last price of the ticker, 168     *)
(* hourly candles and 30 daily closes.  The inputs here are shorter series *)
(* around a price of 100: every length at which a branch of an indicator   *)
(* changes (1 point, 14, 15 and 16 for the RSI and the stochastic, 20 for  *)
(* the Bollinger bands), four shapes, candles with and without a range,    *)
(* and three daily histories, one of them far below the current price.     *)

Lengths == {1, 14, 15, 16, 20}

Shapes == {"flat", "up", "down", "zigzag"}

Spreads == {0, 1}

Dailies == {<<100, 100, 100>>, <<120, 130, 140>>, <<10, 10, 10>>}

Periods == {1, 8, 21, 50}

\* RSI values on both sides of every threshold of the piecewise rule
RsiPoints == {24, 25, 40, 50, 60, 75, 76, 82}

Series(shape, n) ==
    [i \in 1..n |->
        CASE shape = "flat" -> 100
          [] shape = "up" -> 100 + (i - 1)
          [] shape = "down" -> 100 + (n - i)
          [] shape = "zigzag" -> 100 + (i % 2)]

EngineInput(shape, n, spread, daily) ==
    LET closes == Series(shape, n)
    IN  [price |-> closes[n],
         hCloses |-> closes,
         dCloses |-> daily,
         hHighs |-> [i \in 1..n |-> closes[i] + spread],
         hLows |-> [i \in 1..n |-> closes[i] - spread]]

EngineInputs ==
    {EngineInput(shape, n, spread, daily) :
        shape \in Shapes, n \in Lengths, spread \in Spreads, daily \in Dailies}

IdleInput == EngineInput("flat", 1, 0, <<100, 100, 100>>)

NoOutput == [op |-> "none"]

----------------------------------------------------------------------------
(* The read-through cache, src/app.js:46-50 *)

\* src/app.js:33
CACHE_TTL == 20000

\* the keys getTicker and getKlines build (lines 59 and 62); one ticker key
\* and the key of the 1h candles, which refresh() (line 720) and
\* loadTimeframeAndDraw (line 656, TIMEFRAMES["1h"]) both ask for
Keys == {"t:BTCUSDT", "k:BTCUSDT:1h:168"}

\* what a retrieval resolves with: the market data in one of two versions
Payloads == {1, 2}

\* cache.get(key) of a key never set: undefined
NoEntry == [ts |-> Null, data |-> Null]

EmptyCache == [k \in Keys |-> NoEntry]

NoFlights == [k \in Keys |-> 0]

NoServe == [op |-> "none"]

\* the test of line 48 with <= for <
FreshInclusive(e, ttl) == e # NoEntry /\ now - e.ts <= ttl

\* line 48: e && Date.now() - e.ts < ttl
Fresh(e, ttl) == e # NoEntry /\ now - e.ts < ttl

----------------------------------------------------------------------------
(* Overlapping invocations of refresh() *)

\* the number of refresh() invocations followed side by side
MaxOverlap == 2

Slots == 1..MaxOverlap

\* an invocation slot that holds no running invocation
Settled == [pc |-> "idle", todo |-> {}, rejected |-> FALSE]

\* an invocation awaiting the retrievals of every asset (line 717)
Started == [pc |-> "callbacks", todo |-> COINS, rejected |-> FALSE]

NoInvocations == [i \in Slots |-> Settled]

----------------------------------------------------------------------------
(* State machine *)

Init ==
    /\ now = 0
    /\ stored \in ForeignStored
    /\ storeFails \in BOOLEAN
    /\ history = LoadHistory(stored)
    /\ historyIsArray = LoadIsArray(stored)
    /\ coinData = [c \in COINS |-> NoTicker]
    /\ lastOp = "none"
    /\ lastArg = ""
    /\ trimmed = FALSE
    /\ wrote = FALSE
    /\ raised = FALSE
    /\ stats = NoStats
    /\ engineIn = IdleInput
    /\ engineOut = NoOutput
    /\ pc = "idle"
    /\ todo = {}
    /\ rejected = FALSE
    /\ resolveReached = FALSE
    /\ failed = {}
    /\ settled = "none"
    /\ inflight = NoInvocations
    /\ cache = EmptyCache
    /\ flights = NoFlights
    /\ served = NoServe

\* Date.now() advances between two handler runs
Tick(t) ==
    /\ t > now
    /\ now' = t
    /\ lastOp' = "none"
    /\ lastArg' = ""
    /\ trimmed' = FALSE
    /\ wrote' = FALSE
    /\ raised' = FALSE
    /\ stats' = NoStats
    /\ UNCHANGED <<history, historyIsArray, stored, storeFails, coinData>>
    /\ UNCHANGED <<engineVars, refreshVars, overlapVars, cacheVars>>

\* the per-coin callback of refresh() once its three retrievals succeeded
\* (lines 724-739): store the ticker, then recordPrediction.  On a history
\* that is no array, [...history] or history.push throws a TypeError.
CoinCallback(c, price, pred1m, pred1d) ==
    /\ coinData' = [coinData EXCEPT ![c] = price]
    /\ lastOp' = "record"
    /\ lastArg' = c
    /\ stats' = NoStats
    /\ IF ~historyIsArray
       THEN /\ raised' = TRUE
            /\ trimmed' = FALSE
            /\ wrote' = FALSE
            /\ UNCHANGED <<history, stored>>
       ELSE /\ raised' = FALSE
            /\ history' = RecordPrediction(history, c, price, pred1m, pred1d)
            /\ trimmed' = Trims(history, c)
            /\ wrote' = ~RecordRejected(history, c)
            /\ IF RecordRejected(history, c)
               THEN UNCHANGED stored
               ELSE stored' = SaveHistory(history')
    /\ UNCHANGED <<now, historyIsArray, storeFails>>

RefreshCoin(c, price, pred1m, pred1d) ==
    /\ CoinCallback(c, price, pred1m, pred1d)
    /\ UNCHANGED <<engineVars, refreshVars, overlapVars, cacheVars>>

\* resolveHistory, called at the tail of refresh() (line 743).  On a history
\* that is no array the for...of of line 248 throws a TypeError.
resolveHistory ==
    /\ lastOp' = "resolve"
    /\ lastArg' = ""
    /\ trimmed' = FALSE
    /\ stats' = NoStats
    /\ IF ~historyIsArray
       THEN /\ raised' = TRUE
            /\ wrote' = FALSE
            /\ UNCHANGED <<history, stored>>
       ELSE /\ raised' = FALSE
            /\ history' = ResolveAll(history)
            /\ wrote' = Changed(history)
            /\ IF Changed(history)
               THEN stored' = SaveHistory(history')
               ELSE UNCHANGED stored
    /\ UNCHANGED <<now, historyIsArray, storeFails, coinData>>

ResolveHistory ==
    /\ resolveHistory
    /\ UNCHANGED <<engineVars, refreshVars, overlapVars, cacheVars>>

\* Array.prototype.reverse
Reverse(h) == [i \in 1..Len(h) |-> h[Len(h) + 1 - i]]

\* HistoryStats reading the entries newest first with history.reverse(), which
\* reverses the array in place
HistoryStatsReversing(f) ==
    /\ lastOp' = "stats"
    /\ lastArg' = f
    /\ trimmed' = FALSE
    /\ wrote' = FALSE
    /\ IF ~historyIsArray
       THEN /\ raised' = TRUE
            /\ stats' = NoStats
            /\ UNCHANGED history
       ELSE /\ raised' = FALSE
            /\ stats' = GetHistoryStats(history, f)
            /\ history' = Reverse(history)
    /\ UNCHANGED <<now, historyIsArray, stored, storeFails, coinData>>
    /\ UNCHANGED <<engineVars, refreshVars, overlapVars, cacheVars>>

\* getHistoryStats(f), called by renderHistory (line 305).  On a history that
\* is no array, history.filter is not a function: a TypeError.
HistoryStats(f) ==
    /\ lastOp' = "stats"
    /\ lastArg' = f
    /\ trimmed' = FALSE
    /\ wrote' = FALSE
    /\ IF ~historyIsArray
       THEN /\ raised' = TRUE
            /\ stats' = NoStats
       ELSE /\ raised' = FALSE
            /\ stats' = GetHistoryStats(history, f)
    /\ UNCHANGED <<now, history, historyIsArray, stored, storeFails, coinData>>
    /\ UNCHANGED <<engineVars, refreshVars, overlapVars, cacheVars>>

\* the click handler of #history-clear (lines 692-696)
ClearHistory ==
    /\ history' = <<>>
    /\ historyIsArray' = TRUE
    /\ stored' = SaveHistory(history')
    /\ stats' = NoStats
    /\ lastOp' = "clear"
    /\ lastArg' = ""
    /\ trimmed' = FALSE
    /\ wrote' = TRUE
    /\ raised' = FALSE
    /\ UNCHANGED <<now, storeFails, coinData>>
    /\ UNCHANGED <<engineVars, refreshVars, overlapVars, cacheVars>>

\* the page is loaded again: the module state is rebuilt (lines 39-43)
Reload ==
    /\ history' = LoadHistory(stored)
    /\ historyIsArray' = LoadIsArray(stored)
    /\ coinData' = [c \in COINS |-> NoTicker]
    /\ stats' = NoStats
    /\ lastOp' = "none"
    /\ lastArg' = ""
    /\ trimmed' = FALSE
    /\ wrote' = FALSE
    /\ raised' = FALSE
    /\ UNCHANGED <<now, stored, storeFails>>
    /\ UNCHANGED <<engineVars, refreshVars, overlapVars, cacheVars>>

Next ==
    \/ \E t \in Instants : Tick(t)
    \/ \E c \in COINS, q \in Quotes : RefreshCoin(c, q[1], q[2], q[3])
    \/ ResolveHistory
    \/ \E f \in Filters : HistoryStats(f)
    \/ ClearHistory
    \/ Reload

Spec == Init /\ [][Next]_vars

----------------------------------------------------------------------------
(* The prediction engine applied to one input *)

EngineInit ==
    /\ now = 0
    /\ stored = [kind |-> "absent", entries |-> <<>>]
    /\ storeFails = FALSE
    /\ history = <<>>
    /\ historyIsArray = TRUE
    /\ coinData = [c \in COINS |-> NoTicker]
    /\ lastOp = "none"
    /\ lastArg = ""
    /\ trimmed = FALSE
    /\ wrote = FALSE
    /\ raised = FALSE
    /\ stats = NoStats
    /\ engineIn \in EngineInputs
    /\ engineOut = NoOutput
    /\ pc = "idle"
    /\ todo = {}
    /\ rejected = FALSE
    /\ resolveReached = FALSE
    /\ failed = {}
    /\ settled = "none"
    /\ inflight = NoInvocations
    /\ cache = EmptyCache
    /\ flights = NoFlights
    /\ served = NoServe

\* Predict with an indicator that reverses the hourly closes in place
PredictReversing ==
    /\ engineOut' = [op |-> "computePrediction",
                     result |-> computePrediction(engineIn.price, engineIn.hCloses,
                                    engineIn.dCloses, engineIn.hHighs, engineIn.hLows)]
    /\ engineIn' = [engineIn EXCEPT !.hCloses = Reverse(engineIn.hCloses)]
    /\ UNCHANGED <<ledgerVars, refreshVars, overlapVars, cacheVars>>

\* computePrediction(price, closes, dCloses, highs, lows), src/app.js:730
Predict ==
    /\ engineOut' = [op |-> "computePrediction",
                     result |-> computePrediction(engineIn.price, engineIn.hCloses,
                                    engineIn.dCloses, engineIn.hHighs, engineIn.hLows)]
    /\ UNCHANGED <<ledgerVars, engineIn, refreshVars, overlapVars, cacheVars>>

\* calcRSI(hCloses, 14), src/app.js:164
CallCalcRSI ==
    /\ engineOut' = [op |-> "calcRSI",
                     result |-> calcRSI(engineIn.hCloses, RSI_PERIOD)]
    /\ UNCHANGED <<ledgerVars, engineIn, refreshVars, overlapVars, cacheVars>>

\* rsi(hourlyCloses, 14), src/unnamed/part_001:323
CallRsi ==
    /\ engineOut' = [op |-> "rsi",
                     result |-> rsi(engineIn.hCloses, RSI_PERIOD)]
    /\ UNCHANGED <<ledgerVars, engineIn, refreshVars, overlapVars, cacheVars>>

\* calcBollinger(hCloses, 20, 2), src/app.js:174
CallBollinger ==
    /\ engineOut' = [op |-> "calcBollinger",
                     result |-> calcBollinger(engineIn.hCloses,
                                              BB_PERIOD, BB_MULT)]
    /\ UNCHANGED <<ledgerVars, engineIn, refreshVars, overlapVars, cacheVars>>

\* the piecewise rule of lines 165-169 applied to two RSI values
CallRsiSignal(a, b) ==
    /\ engineOut' = [op |-> "rsiSignal", rsi |-> <<a, b>>,
                     result |-> <<RsiSignal(<<a, 100>>), RsiSignal(<<b, 100>>)>>,
                     direction |-> ThreeWay(RsiSignal(<<a, 100>>)[1])]
    /\ UNCHANGED <<ledgerVars, engineIn, refreshVars, overlapVars, cacheVars>>

\* ema(hCloses, period), src/app.js:159
CallEma(period) ==
    /\ engineOut' = [op |-> "ema", period |-> period,
                     result |-> ema(MilliSeq(engineIn.hCloses), period)]
    /\ UNCHANGED <<ledgerVars, engineIn, refreshVars, overlapVars, cacheVars>>

EngineNext ==
    \/ Predict
    \/ CallCalcRSI
    \/ CallRsi
    \/ CallBollinger
    \/ \E a \in RsiPoints, b \in RsiPoints : CallRsiSignal(a, b)
    \/ \E period \in Periods : CallEma(period)

EngineSpec == EngineInit /\ [][EngineNext]_vars

----------------------------------------------------------------------------
(* refresh(), src/app.js:712-755, and the loop of lines 1096-1099          *)
(*                                                                         *)
(* One invocation maps an async callback over the assets inside            *)
(* Promise.all, inside try.  A callback whose retrieval (getTicker,        *)
(* getKlines) rejects, or that throws, rejects the Promise.all: control    *)
(* goes to the catch block and the statements after the await, the call of *)
(* resolveHistory among them, are skipped.  The other callbacks still run. *)
(* The invocation is settled here once every callback has run; the catch   *)
(* block touches the status line only, so its order among the callbacks    *)
(* does not matter to the ledger.                                          *)

\* the number of timer periods RefreshSpec follows
RefreshCycles == 2

RefreshEnd == RefreshCycles * REFRESH_MS

\* LoopSpec follows the loop until the long horizon of the entries of its
\* first two minutes has passed
LoopEnd == LONG_MS + 2 * SHORT_MS + REFRESH_MS

\* LoopSpec refreshes one asset, so that the capacity of the ledger stays,
\* as in the program (100 entries for 3 assets), above the number of entries
\* recorded while a short horizon runs
LoopCoins == {"BTC"}

LoopQuotes == {<<100, 101, 100>>}

\* refresh() is called once when the page has loaded (line 1095)
RefreshInit(coins) ==
    /\ now = 0
    /\ stored = [kind |-> "absent", entries |-> <<>>]
    /\ storeFails = FALSE
    /\ history = LoadHistory(stored)
    /\ historyIsArray = LoadIsArray(stored)
    /\ coinData = [c \in COINS |-> NoTicker]
    /\ lastOp = "none"
    /\ lastArg = ""
    /\ trimmed = FALSE
    /\ wrote = FALSE
    /\ raised = FALSE
    /\ stats = NoStats
    /\ engineIn = IdleInput
    /\ engineOut = NoOutput
    /\ pc = "callbacks"
    /\ todo = coins
    /\ rejected = FALSE
    /\ resolveReached = FALSE
    /\ failed = {}
    /\ settled = "pending"
    /\ inflight = NoInvocations
    /\ cache = EmptyCache
    /\ flights = NoFlights
    /\ served = NoServe

\* the three retrievals of asset c resolve and its callback runs to the end
\* (lines 718-739)
RetrievalSucceeds(c, price, pred1m, pred1d) ==
    /\ pc = "callbacks"
    /\ c \in todo
    /\ CoinCallback(c, price, pred1m, pred1d)
    /\ todo' = todo \ {c}
    /\ rejected' = (rejected \/ raised')
    /\ UNCHANGED <<pc, resolveReached, failed, settled>>
    /\ UNCHANGED <<engineVars, overlapVars, cacheVars>>

\* a retrieval of asset c rejects (fetch fails, or fetchJSON throws on a
\* response that is not ok, line 54): its callback rejects at line 718
RetrievalFails(c) ==
    /\ pc = "callbacks"
    /\ c \in todo
    /\ todo' = todo \ {c}
    /\ rejected' = TRUE
    /\ failed' = failed \cup {c}
    /\ UNCHANGED <<ledgerVars, pc, resolveReached, settled>>
    /\ UNCHANGED <<engineVars, overlapVars, cacheVars>>

\* every callback resolved: lines 742-749, with the call of resolveHistory
RefreshTail ==
    /\ pc = "callbacks"
    /\ todo = {}
    /\ ~rejected
    /\ resolveHistory
    /\ resolveReached' = TRUE
    /\ pc' = "idle"
    /\ settled' = "fulfilled"
    /\ UNCHANGED <<todo, rejected, failed>>
    /\ UNCHANGED <<engineVars, overlapVars, cacheVars>>

\* Catch with the error thrown again at the end of the catch block
CatchRethrows ==
    /\ pc = "callbacks"
    /\ todo = {}
    /\ rejected
    /\ pc' = "idle"
    /\ settled' = "rejected"
    /\ UNCHANGED <<ledgerVars, todo, rejected, resolveReached, failed>>
    /\ UNCHANGED <<engineVars, overlapVars, cacheVars>>

\* a callback rejected: the catch block, lines 750-754, logs the error and
\* sets the status line; the async function then returns, so the promise
\* refresh() gave its caller is fulfilled
Catch ==
    /\ pc = "callbacks"
    /\ todo = {}
    /\ rejected
    /\ pc' = "idle"
    /\ settled' = "fulfilled"
    /\ UNCHANGED <<ledgerVars, todo, rejected, resolveReached, failed>>
    /\ UNCHANGED <<engineVars, overlapVars, cacheVars>>

\* the timer of setInterval fires REFRESH_MS later and calls refresh() again
TimerFires(coins, until) ==
    /\ pc = "idle"
    /\ now + REFRESH_MS <= until
    /\ now' = now + REFRESH_MS
    /\ pc' = "callbacks"
    /\ todo' = coins
    /\ rejected' = FALSE
    /\ resolveReached' = FALSE
    /\ failed' = {}
    /\ settled' = "pending"
    /\ lastOp' = "none"
    /\ lastArg' = ""
    /\ trimmed' = FALSE
    /\ wrote' = FALSE
    /\ raised' = FALSE
    /\ stats' = NoStats
    /\ UNCHANGED <<history, historyIsArray, stored, storeFails, coinData>>
    /\ UNCHANGED <<engineVars, overlapVars, cacheVars>>

RefreshNext ==
    \/ \E c \in COINS, q \in Quotes : RetrievalSucceeds(c, q[1], q[2], q[3])
    \/ \E c \in COINS : RetrievalFails(c)
    \/ RefreshTail
    \/ Catch
    \/ TimerFires(COINS, RefreshEnd)

RefreshSpec == RefreshInit(COINS) /\ [][RefreshNext]_vars

\* the loop with every retrieval succeeding
LoopNext ==
    \/ \E c \in LoopCoins, q \in LoopQuotes : RetrievalSucceeds(c, q[1], q[2], q[3])
    \/ RefreshTail
    \/ TimerFires(LoopCoins, LoopEnd)

\* The browser runs the timer callback every REFRESH_MS while the page is
\* open, and a retrieval that succeeds settles its promise, whose
\* continuation the event loop then runs: no enabled step waits for ever.
LoopSpec == RefreshInit(LoopCoins) /\ [][LoopNext]_vars /\ WF_vars(LoopNext)

----------------------------------------------------------------------------
(* Overlapping invocations: setInterval calls refresh() every REFRESH_MS   *)
(* whether or not the earlier invocation has settled (lines 1096-1099).    *)
(* An invocation is suspended only at the await of line 718; what follows  *)
(* in a callback (lines 724-739) and the tail (lines 742-749) holds no     *)
(* await that yields before the ledger is written: recordPrediction is     *)
(* synchronous and the body of the async resolveHistory has no await, so   *)
(* it runs to its end when called.  Each is one step of the event loop.    *)

OverlapEnd == (RefreshCycles + 1) * REFRESH_MS

\* the time a retrieval is followed in one step of waiting: what brings a
\* timer period up to the spacing of line 230
AwaitStep == SPACING_MS - REFRESH_MS

OverlapInit ==
    /\ now = 0
    /\ stored = [kind |-> "absent", entries |-> <<>>]
    /\ storeFails = FALSE
    /\ history = LoadHistory(stored)
    /\ historyIsArray = LoadIsArray(stored)
    /\ coinData = [c \in COINS |-> NoTicker]
    /\ lastOp = "none"
    /\ lastArg = ""
    /\ trimmed = FALSE
    /\ wrote = FALSE
    /\ raised = FALSE
    /\ stats = NoStats
    /\ engineIn = IdleInput
    /\ engineOut = NoOutput
    /\ pc = "idle"
    /\ todo = {}
    /\ rejected = FALSE
    /\ resolveReached = FALSE
    /\ failed = {}
    /\ settled = "none"
    /\ inflight = [NoInvocations EXCEPT ![1] = Started]
    /\ cache = EmptyCache
    /\ flights = NoFlights
    /\ served = NoServe

\* OverlapCallback with the spacing test of line 230 left to what the
\* invocation saw before it awaited: the entry is pushed without the test
OverlapCallbackUnchecked(i, c, price, pred1m, pred1d) ==
    /\ inflight[i].pc = "callbacks"
    /\ c \in inflight[i].todo
    /\ coinData' = [coinData EXCEPT ![c] = price]
    /\ lastOp' = "record"
    /\ lastArg' = c
    /\ stats' = NoStats
    /\ raised' = FALSE
    /\ history' = PushAndTrim(history, NewEntry(c, price, pred1m, pred1d))
    /\ trimmed' = (Len(history) + 1 > MAX_HISTORY)
    /\ wrote' = TRUE
    /\ stored' = SaveHistory(history')
    /\ inflight' = [inflight EXCEPT ![i].todo = @ \ {c}]
    /\ UNCHANGED <<now, historyIsArray, storeFails>>
    /\ UNCHANGED <<engineVars, refreshVars, cacheVars>>

\* the retrievals of asset c of invocation i resolve and its callback runs
\* to the end (lines 718-739)
OverlapCallback(i, c, price, pred1m, pred1d) ==
    /\ inflight[i].pc = "callbacks"
    /\ c \in inflight[i].todo
    /\ CoinCallback(c, price, pred1m, pred1d)
    /\ inflight' = [inflight EXCEPT ![i].todo = @ \ {c},
                                    ![i].rejected = @ \/ raised']
    /\ UNCHANGED <<engineVars, refreshVars, cacheVars>>

\* a retrieval of asset c of invocation i rejects
OverlapFails(i, c) ==
    /\ inflight[i].pc = "callbacks"
    /\ c \in inflight[i].todo
    /\ inflight' = [inflight EXCEPT ![i].todo = @ \ {c}, ![i].rejected = TRUE]
    /\ UNCHANGED <<ledgerVars, engineVars, refreshVars, cacheVars>>

\* every callback of invocation i resolved: its tail, lines 742-749
OverlapTail(i) ==
    /\ inflight[i].pc = "callbacks"
    /\ inflight[i].todo = {}
    /\ ~inflight[i].rejected
    /\ resolveHistory
    /\ inflight' = [inflight EXCEPT ![i] = Settled]
    /\ UNCHANGED <<engineVars, refreshVars, cacheVars>>

\* a callback of invocation i rejected: its catch block, lines 750-754
OverlapCatch(i) ==
    /\ inflight[i].pc = "callbacks"
    /\ inflight[i].todo = {}
    /\ inflight[i].rejected
    /\ inflight' = [inflight EXCEPT ![i] = Settled]
    /\ UNCHANGED <<ledgerVars, engineVars, refreshVars, cacheVars>>

\* time passes while an invocation awaits its retrievals
OverlapAwait ==
    /\ \E i \in Slots : inflight[i].pc = "callbacks"
    /\ (now % REFRESH_MS) + AwaitStep < REFRESH_MS
    /\ now' = now + AwaitStep
    /\ lastOp' = "none"
    /\ lastArg' = ""
    /\ trimmed' = FALSE
    /\ wrote' = FALSE
    /\ raised' = FALSE
    /\ stats' = NoStats
    /\ UNCHANGED <<history, historyIsArray, stored, storeFails, coinData>>
    /\ UNCHANGED <<engineVars, refreshVars, overlapVars, cacheVars>>

\* the timer fires at the next multiple of REFRESH_MS and calls refresh(),
\* whatever the earlier invocations are doing; the new invocation takes the
\* first free slot
OverlapTimer(i) ==
    /\ inflight[i] = Settled
    /\ \A j \in 1..(i - 1) : inflight[j] # Settled
    /\ ((now \div REFRESH_MS) + 1) * REFRESH_MS <= OverlapEnd
    /\ now' = ((now \div REFRESH_MS) + 1) * REFRESH_MS
    /\ inflight' = [inflight EXCEPT ![i] = Started]
    /\ lastOp' = "none"
    /\ lastArg' = ""
    /\ trimmed' = FALSE
    /\ wrote' = FALSE
    /\ raised' = FALSE
    /\ stats' = NoStats
    /\ UNCHANGED <<history, historyIsArray, stored, storeFails, coinData>>
    /\ UNCHANGED <<engineVars, refreshVars, cacheVars>>

OverlapNext ==
    \/ \E i \in Slots, c \in COINS, q \in Quotes :
          OverlapCallback(i, c, q[1], q[2], q[3])
    \/ \E i \in Slots, c \in COINS : OverlapFails(i, c)
    \/ \E i \in Slots : OverlapTail(i)
    \/ \E i \in Slots : OverlapCatch(i)
    \/ OverlapAwait
    \/ \E i \in Slots : OverlapTimer(i)

OverlapSpec == OverlapInit /\ [][OverlapNext]_vars

----------------------------------------------------------------------------
(* cached(key, ttl, fn), src/app.js:46-50, called by getTicker and         *)
(* getKlines with ttl = CACHE_TTL.  A call either returns the stored data  *)
(* (line 48) or starts the retrieval fn() (line 49); the entry is set in   *)
(* the then-callback, when and if the retrieval resolves.                  *)

\* the number of retrievals of one key followed at a time
MaxFlights == 2

\* the step by which Date.now() advances: half a freshness window
CacheStep == CACHE_TTL \div 2

CacheEnd == 3 * CACHE_TTL

CacheInit ==
    /\ now = 0
    /\ stored = [kind |-> "absent", entries |-> <<>>]
    /\ storeFails = FALSE
    /\ history = <<>>
    /\ historyIsArray = TRUE
    /\ coinData = [c \in COINS |-> NoTicker]
    /\ lastOp = "none"
    /\ lastArg = ""
    /\ trimmed = FALSE
    /\ wrote = FALSE
    /\ raised = FALSE
    /\ stats = NoStats
    /\ engineIn = IdleInput
    /\ engineOut = NoOutput
    /\ pc = "idle"
    /\ todo = {}
    /\ rejected = FALSE
    /\ resolveReached = FALSE
    /\ failed = {}
    /\ settled = "none"
    /\ inflight = NoInvocations
    /\ cache = EmptyCache
    /\ flights = NoFlights
    /\ served = NoServe

\* Date.now() advances
CacheElapse ==
    /\ now + CacheStep <= CacheEnd
    /\ now' = now + CacheStep
    /\ served' = NoServe
    /\ UNCHANGED <<cache, flights>>
    /\ UNCHANGED <<history, historyIsArray, stored, storeFails, coinData,
                   lastOp, lastArg, trimmed, raised, stats, wrote>>
    /\ UNCHANGED <<engineVars, refreshVars, overlapVars>>

\* a call cached(key, CACHE_TTL, fn): lines 47-49 up to the call of fn()
Cached(key) ==
    /\ IF Fresh(cache[key], CACHE_TTL)
       THEN /\ served' = [op |-> "hit", key |-> key,
                          data |-> cache[key].data, ts |-> cache[key].ts]
            /\ UNCHANGED flights
       ELSE /\ flights[key] < MaxFlights
            /\ served' = [op |-> "miss", key |-> key]
            /\ flights' = [flights EXCEPT ![key] = @ + 1]
    /\ UNCHANGED cache
    /\ UNCHANGED <<ledgerVars, engineVars, refreshVars, overlapVars>>

\* a retrieval of key resolves with data d: the then-callback of line 49
RetrievalResolves(key, d) ==
    /\ flights[key] > 0
    /\ flights' = [flights EXCEPT ![key] = @ - 1]
    /\ cache' = [cache EXCEPT ![key] = [ts |-> now, data |-> d]]
    /\ served' = [op |-> "store", key |-> key, data |-> d]
    /\ UNCHANGED <<ledgerVars, engineVars, refreshVars, overlapVars>>

\* a retrieval of key rejects (fetch fails, or line 54 throws): the
\* then-callback does not run and the rejection goes to the caller
RetrievalRejects(key) ==
    /\ flights[key] > 0
    /\ flights' = [flights EXCEPT ![key] = @ - 1]
    /\ served' = [op |-> "fail", key |-> key]
    /\ UNCHANGED cache
    /\ UNCHANGED <<ledgerVars, engineVars, refreshVars, overlapVars>>

CacheNext ==
    \/ CacheElapse
    \/ \E key \in Keys : Cached(key)
    \/ \E key \in Keys, d \in Payloads : RetrievalResolves(key, d)
    \/ \E key \in Keys : RetrievalRejects(key)

CacheSpec == CacheInit /\ [][CacheNext]_vars

----------------------------------------------------------------------------
(* Helpers of the properties *)

\* the entries of h and g that are the same ledger entry (same asset, same
\* creation time), as pairs of indices
SameEntry(h, g) ==
    {p \in (1..Len(h)) \X (1..Len(g)) :
        h[p[1]].coin = g[p[2]].coin /\ h[p[1]].ts = g[p[2]].ts}

Pending1m(e) == e.actual1m = Null /\ e.actual1mTs = Null
Pending1d(e) == e.actual1d = Null /\ e.actual1dTs = Null

\* the last step ran the operation op on a well-formed ledger
Ran(op) == lastOp = op /\ ~raised

----------------------------------------------------------------------------
(* C1 *)

\* C1: in every step, a horizon of an entry that was resolved stays resolved
\* (no entry is re-opened), and a horizon goes from pending to resolved only
\* in a resolveHistory call made when the time since the entry's creation is
\* at least the horizon (60 s short, 86,400 s long) and coinData holds a
\* ticker for the entry's asset; so a call 30 s after creation leaves the
\* short horizon pending.
C1_PendingToResolvedOnly ==
    [][\A p \in SameEntry(history, history') :
         LET old == history[p[1]]
             new == history'[p[2]]
         IN  /\ old.actual1m # Null => new.actual1m # Null
             /\ old.actual1d # Null => new.actual1d # Null
             /\ (old.actual1m = Null /\ new.actual1m # Null) =>
                    /\ lastOp' = "resolve"
                    /\ now' - old.ts >= 60000
                    /\ coinData'[old.coin] # NoTicker
             /\ (old.actual1d = Null /\ new.actual1d # Null) =>
                    /\ lastOp' = "resolve"
                    /\ now' - old.ts >= 86400000
                    /\ coinData'[old.coin] # NoTicker
      ]_vars

\* a resolveHistory call has just resolved the short horizon of one entry and
\* left pending that of another, created 30 s before the call
C1_Witness ==
    /\ Ran("resolve")
    /\ \E i \in 1..Len(history) :
          history[i].actual1m # Null /\ history[i].actual1mTs = now
    /\ \E j \in 1..Len(history) :
          now - history[j].ts = 30000 /\ Pending1m(history[j])

----------------------------------------------------------------------------
(* C2 *)

\* C2: in every step, the actual price and the resolution time of a resolved
\* horizon of an entry are the same after the step as before it.
C2_ResolvedFieldsFrozen ==
    [][\A p \in SameEntry(history, history') :
         LET old == history[p[1]]
             new == history'[p[2]]
         IN  /\ old.actual1m # Null =>
                    new.actual1m = old.actual1m /\ new.actual1mTs = old.actual1mTs
             /\ old.actual1d # Null =>
                    new.actual1d = old.actual1d /\ new.actual1dTs = old.actual1dTs
      ]_vars

\* resolveHistory has just run on an entry that was resolved by an earlier call
\* at another price than the one coinData holds now
C2_Witness ==
    /\ Ran("resolve")
    /\ \E i \in 1..Len(history) :
          /\ history[i].actual1m # Null
          /\ history[i].actual1mTs < now
          /\ coinData[history[i].coin] # NoTicker
          /\ coinData[history[i].coin] # history[i].actual1m

----------------------------------------------------------------------------
(* C3 *)

\* C3: right after a resolveHistory call, a second call (same clock, same
\* coinData) would return the entries as the first call left them.
C3_ResolveIdempotent ==
    Ran("resolve") => ResolveAll(history) = history

\* a resolveHistory call that resolved both horizons of an entry
C3_Witness ==
    /\ Ran("resolve")
    /\ \E i \in 1..Len(history) :
          history[i].actual1mTs = now /\ history[i].actual1dTs = now

----------------------------------------------------------------------------
(* C4 *)

\* C4: a resolveHistory call on an array ledger does not throw; it leaves
\* pending, with actual and resolvedAt null, every due horizon of an entry
\* whose asset has no ticker in coinData, and it resolves to the ticker's last
\* price every due horizon of an entry whose asset has one.
C4_NoTickerStaysPending ==
    [][(lastOp' = "resolve" /\ historyIsArray) =>
         /\ ~raised'
         /\ Len(history') = Len(history)
         /\ \A i \in 1..Len(history) :
              LET old == history[i]
                  new == history'[i]
                  due1m == old.actual1m = Null /\ now - old.ts >= 60000
                  due1d == old.actual1d = Null /\ now - old.ts >= 86400000
              IN  IF coinData[old.coin] = NoTicker
                  THEN /\ due1m => Pending1m(new)
                       /\ due1d => Pending1d(new)
                  ELSE /\ due1m => new.actual1m = coinData[old.coin]
                                   /\ new.actual1mTs = now
                       /\ due1d => new.actual1d = coinData[old.coin]
                                   /\ new.actual1dTs = now
      ]_vars

\* resolveHistory has just run, without throwing, on an entry whose short
\* horizon is due and whose asset has no ticker
C4_Witness ==
    /\ Ran("resolve")
    /\ \E i \in 1..Len(history) :
          /\ now - history[i].ts >= 60000
          /\ coinData[history[i].coin] = NoTicker
          /\ Pending1m(history[i])

----------------------------------------------------------------------------
(* C5 *)

\* no two entries of one asset are created less than 55 s apart
SpacedOut(h) ==
    \A i, j \in 1..Len(h) :
        (i < j /\ h[i].coin = h[j].coin) => h[j].ts - h[i].ts >= 55000

\* the most recent entry of h for asset c is younger than 55 s
HasRecent(h, c) ==
    \E i \in 1..Len(h) :
        /\ h[i].coin = c
        /\ \A j \in (i + 1)..Len(h) : h[j].coin # c
        /\ now - h[i].ts < 55000

\* C5: a recordPrediction call on an array ledger leaves the ledger as it is
\* when the most recent entry of the asset is younger than 55 s, and otherwise
\* the ledger ends with a new entry of that asset, created now and pending on
\* both horizons; and the ledger never holds two entries of one asset created
\* less than 55 s apart.
C5_RecordSpacing ==
    [][/\ SpacedOut(history')
       /\ (lastOp' = "record" /\ ~raised') =>
             IF HasRecent(history, lastArg')
             THEN history' = history
             ELSE /\ history' # <<>>
                  /\ LET e == history'[Len(history')]
                     IN  /\ e.coin = lastArg'
                         /\ e.ts = now
                         /\ e.price = coinData'[lastArg']
                         /\ Pending1m(e) /\ Pending1d(e)
      ]_vars

\* a record for an asset was accepted exactly 55 s after the asset's previous
\* entry
C5_Witness ==
    /\ Ran("record")
    /\ \E i, j \in 1..Len(history) :
          /\ i < j
          /\ history[i].coin = history[j].coin
          /\ history[j].ts = now
          /\ history[j].ts - history[i].ts = 55000

----------------------------------------------------------------------------
(* C6 *)

\* the entries are in creation order
InCreationOrder(h) ==
    \A i, j \in 1..Len(h) : i < j => h[i].ts <= h[j].ts

\* C6: the ledger never holds more than MAX_HISTORY entries, it is in creation
\* order, and a record that the spacing rule accepts leaves the entries it
\* found, less the oldest one when the ledger was full, followed by the new
\* entry.
C6_CapacityFifo ==
    [][/\ Len(history') <= MAX_HISTORY
       /\ InCreationOrder(history')
       /\ (lastOp' = "record" /\ ~raised' /\ ~HasRecent(history, lastArg')) =>
             /\ history' # <<>>
             /\ history'[Len(history')].ts = now
             /\ history'[Len(history')].coin = lastArg'
             /\ LET kept == SubSeq(history', 1, Len(history') - 1)
                IN  IF Len(history) < MAX_HISTORY
                    THEN kept = history
                    ELSE kept = Tail(history)
      ]_vars

\* a record has just evicted the oldest entry of a full ledger
C6_Witness ==
    /\ Ran("record")
    /\ trimmed
    /\ Len(history) = MAX_HISTORY
    /\ history[Len(history)].ts = now

----------------------------------------------------------------------------
(* C7 *)

\* C7: whatever localStorage held when the page loaded, no recordPrediction,
\* resolveHistory or getHistoryStats call throws.
C7_NoOperationThrows == ~raised

----------------------------------------------------------------------------
(* C8 *)

\* the entries getHistoryStats(f) looks at
Selected(h, f) == {i \in 1..Len(h) : f = "ALL" \/ h[i].coin = f}

\* C8: after getHistoryStats(f), for each horizon the hit-rate and the mean
\* error are null when no selected entry is resolved on that horizon, and
\* otherwise the hit-rate is a number from 0 to 100 and the mean error a
\* number >= 0.
C8_MetricsNullOrBounded ==
    Ran("stats") =>
        LET n1m == Cardinality({i \in Selected(history, lastArg) :
                                    history[i].actual1m # Null})
            n1d == Cardinality({i \in Selected(history, lastArg) :
                                    history[i].actual1d # Null})
        IN  /\ stats.resolved1m = n1m
            /\ stats.resolved1d = n1d
            /\ IF n1m = 0
               THEN stats.accuracy1m = Null /\ stats.avgErr1m = Null
               ELSE /\ stats.accuracy1m >= 0
                    /\ stats.accuracy1m <= Fixed(100, 1)
                    /\ stats.avgErr1m >= 0
            /\ IF n1d = 0
               THEN stats.accuracy1d = Null /\ stats.avgErr1d = Null
               ELSE /\ stats.accuracy1d >= 0
                    /\ stats.accuracy1d <= Fixed(100, 1)
                    /\ stats.avgErr1d >= 0

\* getHistoryStats has just returned a hit-rate strictly between 0 and 100 for
\* the short horizon and null metrics for the long one
C8_Witness ==
    /\ Ran("stats")
    /\ stats.accuracy1m > 0
    /\ stats.accuracy1m < Fixed(100, 1)
    /\ stats.resolved1d = 0
    /\ stats.accuracy1d = Null

----------------------------------------------------------------------------
(* C9 *)

\* the sign of x: -1, 0 or 1
Sign(x) == IF x > 0 THEN 1 ELSE IF x < 0 THEN -1 ELSE 0

\* C9: after getHistoryStats(f), the hit-rate of each horizon is the share,
\* among the selected entries resolved on that horizon, of those whose
\* forecast and actual price lie on the same side of the price at creation,
\* the side being the three-valued sign of the difference.
C9_HitRateIsSignAgreement ==
    Ran("stats") =>
        LET r1m == {i \in Selected(history, lastArg) : history[i].actual1m # Null}
            r1d == {i \in Selected(history, lastArg) : history[i].actual1d # Null}
            h1m == {i \in r1m : Sign(history[i].pred1m - history[i].price)
                                  = Sign(history[i].actual1m - history[i].price)}
            h1d == {i \in r1d : Sign(history[i].pred1d - history[i].price)
                                  = Sign(history[i].actual1d - history[i].price)}
        IN  /\ r1m # {} =>
                  stats.accuracy1m = Fixed(Cardinality(h1m) * 100, Cardinality(r1m))
            /\ r1d # {} =>
                  stats.accuracy1d = Fixed(Cardinality(h1d) * 100, Cardinality(r1d))

----------------------------------------------------------------------------
(* C10 *)

\* C10: a getHistoryStats call leaves the entries and the persisted ledger as
\* they were, and a second call with the same filter right after it would
\* return what the first returned.
C10_StatsReadOnly ==
    [][lastOp' = "stats" =>
         /\ history' = history
         /\ historyIsArray' = historyIsArray
         /\ stored' = stored
         /\ ~raised' => GetHistoryStats(history', lastArg') = stats'
      ]_vars

\* getHistoryStats has just returned for a persisted ledger that holds a
\* resolved and a pending entry
C10_Witness ==
    /\ Ran("stats")
    /\ stats.total = 2
    /\ stats.resolved1m = 1
    /\ stored.kind = "array"
    /\ stored.entries = history

----------------------------------------------------------------------------
(* C11 to C17: the prediction engine, under EngineSpec *)

\* computePrediction has just returned
Predicted == engineOut.op = "computePrediction"

Bulls(signals) ==
    Cardinality({k \in INDICATORS : signals[k].direction = "bullish"})

Bears(signals) ==
    Cardinality({k \in INDICATORS : signals[k].direction = "bearish"})

DIRECTIONS == {"bullish", "bearish", "neutral"}

\* C11: for a price > 0 and non-empty series, the short-horizon forecast of
\* computePrediction is within 3% of the price and the long-horizon forecast
\* within 15%, however extreme the indicator signals are.
C11_ForecastBounded ==
    Predicted =>
        /\ Abs(engineOut.result.oneMinute - Milli(engineIn.price)) * 100
              <= 3 * Milli(engineIn.price)
        /\ Abs(engineOut.result.oneDay - Milli(engineIn.price)) * 100
              <= 15 * Milli(engineIn.price)

----------------------------------------------------------------------------
(* C12 *)

----------------------------------------------------------------------------
(* C13 *)

\* the direction that is the sign of x
DirectionOf(x) ==
    CASE Sign(x) = 1 -> "bullish"
      [] Sign(x) = -1 -> "bearish"
      [] Sign(x) = 0 -> "neutral"

\* C13: the direction of each indicator reading is the sign of that
\* indicator's own signal: bullish above 0, bearish below 0, neutral at
\* exactly 0.  (ATR is left out: its reading is a volatility, which has no
\* sign to take a side with, and its direction is the constant neutral.)
C13_DirectionIsSignOfSignal ==
    Predicted =>
        \A k \in INDICATORS \ {"ATR"} :
            engineOut.result.signals[k].direction
                = DirectionOf(engineOut.result.signals[k].signal[1])

----------------------------------------------------------------------------
(* C14 *)

\* C14: every one of the seven indicator readings has a direction among
\* bullish, bearish and neutral and a strength between 0 and 100.
C14_ReadingsInRange ==
    Predicted =>
        \A k \in INDICATORS :
            /\ engineOut.result.signals[k].direction \in DIRECTIONS
            /\ engineOut.result.signals[k].strength >= 0
            /\ engineOut.result.signals[k].strength <= Milli(100)

\* computePrediction has returned a reading whose strength is capped at 100
\* by a signal beyond the cap, and another strictly between 0 and 100
C14_Witness ==
    /\ Predicted
    /\ engineOut.result.signals["MeanRev"].strength = Milli(100)
    /\ Abs(ToMicro(engineOut.result.signals["MeanRev"].signal)) * 3 > Micro
    /\ engineOut.result.signals["EMA"].strength > 0
    /\ engineOut.result.signals["EMA"].strength < Milli(100)

----------------------------------------------------------------------------
(* C15 and C16 *)

\* an RSI function has just returned
RsiReturned == engineOut.op \in {"calcRSI", "rsi"}

NoDecrease(s) == \A i \in 2..Len(s) : s[i] >= s[i - 1]

\* C15: for every series of at least 15 points with no price decrease (so
\* that the average loss is 0), the RSI is exactly 100, a series of exactly
\* 15 points included.
C15_NoLossIsHundred ==
    /\ RsiReturned /\ Len(engineIn.hCloses) >= 15 /\ NoDecrease(engineIn.hCloses)
          => engineOut.result[1] = engineOut.result[2]
    /\ Predicted /\ Len(engineIn.hCloses) >= 15 /\ NoDecrease(engineIn.hCloses)
          => engineOut.result.rsi[1] = engineOut.result.rsi[2]

\* C16: for every series of fewer than 15 points the RSI is exactly 50, and
\* the call returns.
C16_ShortSeriesIsFifty ==
    /\ RsiReturned /\ Len(engineIn.hCloses) < 15
          => 2 * engineOut.result[1] = engineOut.result[2]
    /\ Predicted /\ Len(engineIn.hCloses) < 15
          => 2 * engineOut.result.rsi[1] = engineOut.result.rsi[2]

\* calcRSI has just returned for a falling series of 14 points
C16_Witness ==
    /\ engineOut.op = "calcRSI"
    /\ Len(engineIn.hCloses) = 14
    /\ engineIn.hCloses[14] < engineIn.hCloses[1]

----------------------------------------------------------------------------
(* C17 *)

\* C17: ema returns a sequence as long as its input whose first element is
\* the first element of the input and whose every later element is
\* series[i]*k + v[i-1]*(1-k) with k = 2/(period+1), here to the thousandth
\* below: (period+1)*v[i] is at most 2*series[i] + (period-1)*v[i-1] and
\* less than period+1 short of it.
C17_EmaRecurrence ==
    engineOut.op = "ema" =>
        LET data == MilliSeq(engineIn.hCloses)
            v == engineOut.result
            period == engineOut.period
        IN  /\ Len(v) = Len(data)
            /\ v[1] = data[1]
            /\ \A i \in 2..Len(v) :
                  LET exact == 2 * data[i] + (period - 1) * v[i - 1]
                  IN  /\ (period + 1) * v[i] <= exact
                      /\ exact < (period + 1) * v[i] + (period + 1)

\* ema has just returned, with period 8, a sequence of 20 elements that moves
\* off its seed
C17_Witness ==
    /\ engineOut.op = "ema"
    /\ engineOut.period = 8
    /\ Len(engineOut.result) = 20
    /\ engineOut.result[20] > engineOut.result[1]

----------------------------------------------------------------------------
(* C18, under LoopSpec *)

\* the ledger holds the entry that asset c recorded at time t
InLedger(c, t) ==
    \E i \in 1..Len(history) : history[i].coin = c /\ history[i].ts = t

ShortResolved(c, t) ==
    \E i \in 1..Len(history) :
        history[i].coin = c /\ history[i].ts = t /\ history[i].actual1m # Null

LongResolved(c, t) ==
    \E i \in 1..Len(history) :
        history[i].coin = c /\ history[i].ts = t /\ history[i].actual1d # Null

\* C18: under a refresh loop that keeps running with prices available, every
\* entry appended to the ledger eventually has its short horizon resolved and
\* eventually has its long horizon resolved; stated for the entries recorded
\* at page load and two minutes later, whose long horizon ends within the
\* time the loop is followed.
C18_EveryEntryResolved ==
    /\ InLedger("BTC", 0) ~> ShortResolved("BTC", 0)
    /\ InLedger("BTC", 0) ~> LongResolved("BTC", 0)
    /\ InLedger("BTC", 2 * SHORT_MS) ~> ShortResolved("BTC", 2 * SHORT_MS)
    /\ InLedger("BTC", 2 * SHORT_MS) ~> LongResolved("BTC", 2 * SHORT_MS)

----------------------------------------------------------------------------
(* C19, under RefreshSpec *)

\* C19: every invocation of refresh() reaches resolveHistory, whatever the
\* outcome of the retrievals of that cycle: an invocation that has settled
\* has called resolveHistory.
C19_RefreshReachesResolve == pc = "idle" => resolveReached

----------------------------------------------------------------------------
(* C20, under Spec *)

\* C20: after every operation that changes the ledger (an accepted record, a
\* resolve that resolved something, a clear), the value persisted under the
\* history key loads back as the in-memory ledger, entry for entry, provided
\* the store write succeeded.
C20_StoreRoundTrip ==
    [][(/\ lastOp' \in {"record", "resolve", "clear"}
        /\ ~raised'
        /\ history' # history
        /\ ~storeFails)
          => /\ LoadIsArray(stored')
             /\ LoadHistory(stored') = history'
      ]_vars

\* resolveHistory has just resolved the older entry of a full ledger and the
\* persisted value holds both entries, the resolved one first
C20_Witness ==
    /\ Ran("resolve")
    /\ ~storeFails
    /\ Len(history) = MAX_HISTORY
    /\ history[1].actual1m # Null
    /\ history[Len(history)].actual1m = Null
    /\ stored.kind = "array"
    /\ Len(stored.entries) = MAX_HISTORY
    /\ stored.entries[1].actual1m # Null

----------------------------------------------------------------------------
(* C21, under Spec *)

\* the sum of f[i] over the indices in S
RECURSIVE SumOver(_, _)
SumOver(f, S) ==
    IF S = {} THEN 0
    ELSE LET i == CHOOSE j \in S : TRUE IN f[i] + SumOver(f, S \ {i})

\* |forecast - actual| / priceAtCreation * 100 of entry i, per horizon
Err1m(h) ==
    [i \in 1..Len(h) |-> Fixed(Abs(h[i].pred1m - h[i].actual1m) * 100, h[i].price)]

Err1d(h) ==
    [i \in 1..Len(h) |-> Fixed(Abs(h[i].pred1d - h[i].actual1d) * 100, h[i].price)]

\* C21: after getHistoryStats(f), the mean percentage error of each horizon
\* is the average of |forecast - actual| / priceAtCreation * 100 over the
\* selected entries resolved on that horizon; pending entries and entries of
\* other assets contribute nothing.
C21_MeanErrorOverResolved ==
    Ran("stats") =>
        LET r1m == {i \in Selected(history, lastArg) : history[i].actual1m # Null}
            r1d == {i \in Selected(history, lastArg) : history[i].actual1d # Null}
        IN  /\ r1m # {} =>
                  stats.avgErr1m = SumOver(Err1m(history), r1m) \div Cardinality(r1m)
            /\ r1d # {} =>
                  stats.avgErr1d = SumOver(Err1d(history), r1d) \div Cardinality(r1d)

\* getHistoryStats has just returned, for the filter of one asset, a mean
\* error above 0 over that asset's resolved entry, the ledger also holding an
\* entry of another asset
C21_Witness ==
    /\ Ran("stats")
    /\ lastArg \in COINS
    /\ stats.total = 1
    /\ stats.resolved1m = 1
    /\ stats.avgErr1m > 0
    /\ Len(history) = 2
    /\ \E i \in 1..Len(history) : history[i].coin # lastArg

----------------------------------------------------------------------------
(* C22, under EngineSpec *)

BollingerReturned == engineOut.op = "calcBollinger"

LastPrice == Last(engineIn.hCloses)

\* the guarded percentB: (last - lower) / (upper - lower), the divisor being
\* 1 when the band has no width
GuardedPctB ==
    LET width == engineOut.result.lastUpper - engineOut.result.lastLower
    IN  /\ engineOut.result.pctB[2] # 0
        /\ engineOut.result.pctB[1] = Milli(LastPrice) - engineOut.result.lastLower
        /\ engineOut.result.pctB[2] = IF width = 0 THEN Milli(1) ELSE width

\* C22 as stated: with fewer than 20 points the latest upper and lower bands
\* are the last price offset by 0.2% or 0.5% of it, and percentB is computed
\* with a guard against a band of no width.
C22_FallbackNarrow ==
    BollingerReturned =>
        /\ Len(engineIn.hCloses) < BB_PERIOD =>
              /\ engineOut.result.lastUpper - Milli(LastPrice)
                    \in {2 * LastPrice, 5 * LastPrice}
              /\ Milli(LastPrice) - engineOut.result.lastLower
                    \in {2 * LastPrice, 5 * LastPrice}
        /\ GuardedPctB

\* C22, amended: with fewer than 20 points the latest upper and lower bands
\* are the last price plus and minus 2% of it (so percentB is 1/2), and
\* percentB is computed with a guard against a band of no width.
C22_FallbackTwoPercent ==
    BollingerReturned =>
        /\ Len(engineIn.hCloses) < BB_PERIOD =>
              /\ engineOut.result.lastUpper - Milli(LastPrice) = 20 * LastPrice
              /\ Milli(LastPrice) - engineOut.result.lastLower = 20 * LastPrice
              /\ 2 * engineOut.result.pctB[1] = engineOut.result.pctB[2]
        /\ GuardedPctB

\* calcBollinger has just returned for a series of 16 points
C22_Witness ==
    /\ BollingerReturned
    /\ Len(engineIn.hCloses) = 16
    /\ engineOut.result.lastUpper > Milli(LastPrice)

\* calcBollinger has just returned for 20 equal prices: a band of no width
C22_WitnessNoWidth ==
    /\ BollingerReturned
    /\ Len(engineIn.hCloses) = BB_PERIOD
    /\ engineOut.result.lastUpper = engineOut.result.lastLower

----------------------------------------------------------------------------
(* C23, under EngineSpec *)

\* whether ratio x is at least as large in magnitude as ratio y
AtLeastAsStrong(x, y) == Abs(x[1]) * y[2] >= Abs(y[1]) * x[2]

\* C23: rsiSignal is negative for an RSI above 75 and for one in 60-75,
\* positive for one below 25 and for one in 25-40, and 0 otherwise; the
\* signal of any RSI above 75 is at least as strong as that of any RSI in
\* 60-75, and the signal of any RSI below 25 at least as strong as that of any
\* RSI in 25-40; an RSI of 82 gives a negative signal and a bearish RSI
\* direction, whatever the other signals are.
C23_RsiSignalPiecewise ==
    /\ engineOut.op = "rsiSignal" =>
          LET a == engineOut.rsi[1]
              b == engineOut.rsi[2]
              sa == engineOut.result[1]
              sb == engineOut.result[2]
          IN  /\ a > 60 => sa[1] < 0
              /\ a < 40 => sa[1] > 0
              /\ a >= 40 /\ a <= 60 => sa[1] = 0
              /\ a > 75 /\ b > 60 /\ b <= 75 => AtLeastAsStrong(sa, sb)
              /\ a < 25 /\ b >= 25 /\ b < 40 => AtLeastAsStrong(sa, sb)
              /\ a = 82 => sa[1] < 0 /\ engineOut.direction = "bearish"
    /\ Predicted /\ 4 * engineOut.result.rsi[1] > 3 * engineOut.result.rsi[2]
          => /\ engineOut.result.signals["RSI"].signal[1] < 0
             /\ engineOut.result.signals["RSI"].direction = "bearish"

----------------------------------------------------------------------------
(* C24, under EngineSpec *)

----------------------------------------------------------------------------
(* C25, under Spec *)

\* C25: in every reachable ledger, an entry whose long horizon is resolved
\* has its short horizon resolved too, and each resolved horizon was resolved
\* at least its duration after the entry was created.
C25_ResolvedInOrder ==
    historyIsArray =>
        \A i \in 1..Len(history) :
            /\ history[i].actual1d # Null => history[i].actual1m # Null
            /\ history[i].actual1m # Null
                  => history[i].actual1mTs - history[i].ts >= SHORT_MS
            /\ history[i].actual1d # Null
                  => history[i].actual1dTs - history[i].ts >= LONG_MS

\* the ledger holds an entry resolved on the short horizon at one time and on
\* the long horizon at a later time
C25_Witness ==
    \E i \in 1..Len(history) :
        /\ history[i].actual1m # Null
        /\ history[i].actual1d # Null
        /\ history[i].actual1mTs < history[i].actual1dTs

----------------------------------------------------------------------------
(* C26, under OverlapSpec *)

\* the number of invocations of refresh() that have not settled
Running == Cardinality({i \in Slots : inflight[i].pc = "callbacks"})

\* C26: with invocations of refresh() overlapping and the callbacks of the
\* assets completing in any order, each record and each resolve being one
\* step, the ledger never holds two entries of one asset less than 55 s
\* apart, never exceeds MAX_HISTORY entries, and no step changes the actual
\* price or the resolved-at time of a horizon that was resolved.
C26_OverlapKeepsLedger ==
    /\ [](SpacedOut(history) /\ Len(history) <= MAX_HISTORY)
    /\ [][\A p \in SameEntry(history, history') :
            LET old == history[p[1]]
                new == history'[p[2]]
            IN  /\ old.actual1m # Null =>
                      /\ new.actual1m = old.actual1m
                      /\ new.actual1mTs = old.actual1mTs
                /\ old.actual1d # Null =>
                      /\ new.actual1d = old.actual1d
                      /\ new.actual1dTs = old.actual1dTs
         ]_vars

\* while two invocations are running, a callback of the later one has just
\* been turned down by the spacing rule against an entry that a callback of
\* the earlier one recorded after the later one had started, and the ledger
\* holds a resolved entry
C26_Witness ==
    /\ Running = 2
    /\ lastOp = "record"
    /\ \E i \in 1..Len(history) :
          /\ history[i].coin = lastArg
          /\ history[i].ts > 0
          /\ history[i].ts < now
          /\ history[i].ts % REFRESH_MS # 0
          /\ now - history[i].ts < SPACING_MS
    /\ \E i \in 1..Len(history) : history[i].actual1m # Null

----------------------------------------------------------------------------
(* C27, under RefreshSpec *)

\* the entries of h that belong to asset c
EntriesOf(h, c) == {h[i] : i \in {j \in 1..Len(h) : h[j].coin = c}}

----------------------------------------------------------------------------
(* C28, under Spec *)

\* no entry of h has a pending horizon that is old enough while coinData holds
\* a ticker of its asset
NothingToResolve(h) ==
    \A i \in 1..Len(h) :
        /\ (h[i].actual1m = Null /\ now - h[i].ts >= 60000)
              => coinData[h[i].coin] = NoTicker
        /\ (h[i].actual1d = Null /\ now - h[i].ts >= 86400000)
              => coinData[h[i].coin] = NoTicker

\* C28: a recordPrediction call that the 55 s spacing rule rejects, and a
\* resolveHistory call that finds no horizon to resolve, leave the in-memory
\* ledger as it was, do not call saveHistory, and leave the stored value as
\* it was.
C28_NoEffectNoWrite ==
    [][/\ (lastOp' = "record" /\ ~raised' /\ HasRecent(history, lastArg'))
             => history' = history /\ ~wrote' /\ stored' = stored
       /\ (lastOp' = "resolve" /\ ~raised' /\ NothingToResolve(history))
             => history' = history /\ ~wrote' /\ stored' = stored
      ]_vars

\* a record at a price that the last entry of the ledger does not have has
\* just been rejected by the spacing rule, in a store that accepts writes
C28_Witness ==
    /\ Ran("record")
    /\ HasRecent(history, lastArg)
    /\ ~wrote
    /\ ~storeFails
    /\ history # <<>>
    /\ coinData[lastArg] # history[Len(history)].price

----------------------------------------------------------------------------
(* C29, under CacheSpec *)

\* C29: a value the cache serves was stored less than CACHE_TTL ago and is
\* the value stored under the key; a call that is not served from the cache
\* found no entry or one stored CACHE_TTL ago or earlier, and starts a
\* retrieval without touching the cache; a retrieval that resolves stores its
\* result under its key with the current time and leaves the other keys; a
\* retrieval that fails leaves the cache unchanged.
C29_CacheServesFresh ==
    /\ [](served.op = "hit" =>
             /\ now - served.ts < 20000
             /\ cache[served.key] = [ts |-> served.ts, data |-> served.data])
    /\ [][/\ served'.op = "hit" =>
                /\ cache' = cache
                /\ flights' = flights
          /\ served'.op = "miss" =>
                /\ \/ cache[served'.key].ts = Null
                   \/ now - cache[served'.key].ts >= 20000
                /\ cache' = cache
                /\ flights'[served'.key] = flights[served'.key] + 1
          /\ served'.op = "store" =>
                /\ cache'[served'.key] = [ts |-> now, data |-> served'.data]
                /\ \A k \in Keys \ {served'.key} : cache'[k] = cache[k]
          /\ served'.op = "fail" => cache' = cache
         ]_vars

\* a call has just been turned to the retrieval, the only one of its key,
\* although the cache holds an entry of the key: one stored exactly CACHE_TTL
\* ago
C29_Witness ==
    /\ served.op = "miss"
    /\ cache[served.key].ts # Null
    /\ now - cache[served.key].ts = CACHE_TTL
    /\ flights[served.key] = 1

----------------------------------------------------------------------------
(* C30, under CacheSpec *)

\* C30: at no time are two retrievals of one key outstanding.
C30_OneRetrievalPerKey == \A k \in Keys : flights[k] <= 1

====
